---- MODULE Spec2Model ----
(***************************************************************************)
(* 3D cellular automaton of 3dca_opt.py: the module-level configuration,   *)
(* the global random generator, the numpy arrays the script allocates,     *)
(* generate_map's loop, the analysis functions (apply_rules,               *)
(* predict_future_states, get_death_iteration) and the rendering           *)
(* (render_cells, set_metaball_properties).                                *)
(*                                                                         *)
(* A numpy array is an object on the heap: a variable or a list entry      *)
(* holds a reference (an index into heap), `.copy()` allocates, and an     *)
(* in-place update (age_map[mask] += 1) rewrites the object every          *)
(* reference to it sees.  heap records every array generate_map allocates, *)
(* also those no variable points to any more; the arrays of an analysis    *)
(* call are dropped when the caller is done with its result.               *)
(***************************************************************************)
EXTENDS Integers, Sequences, FiniteSets, TLC

\* ------------------------------------------------------------------ bounds
\* The grid shapes explored (the script fixes 24 x 24 x 36).  3 x 2 x 2 is
\* the smallest torus on which every neighbour count 0..26 occurs for alive
\* and for dead cells; the others have an axis of length 1 or 2, where one
\* cell is reached by several offsets (and a cell can neighbour itself).
BigShapes == {<<3, 2, 2>>}

SmallShapes == {<<1, 1, 1>>, <<2, 1, 1>>, <<1, 3, 1>>, <<2, 2, 1>>}

\* The number of generate_map calls of one behaviour under SpecRuns.
MaxRuns == 2

\* ITERATIONS ranges over 1..MaxIterations, LOOKAHEAD over 0..MaxLookahead.
MaxIterations == 2

MaxLookahead == 2

\* The largest `lookahead` argument handed to the analysis functions (which
\* get none larger than the number of History entries).
MaxQuery == 2

\* ------------------------------------------------------- program constants
\* INIT_PROB = 0.497, in thousandths.
INIT_PROB == 497

RND_SEED == 781

VARIABLES
    X_DIM, Y_DIM, Z_DIM,    \* module globals, lines 34-35
    ITERATIONS, LOOKAHEAD,  \* module globals, lines 31-32
    rng,                    \* numpy's global generator, seeded at line 41
    heap,                   \* the numpy arrays allocated so far
    pc,                     \* position of the script
    i,                      \* generate_map's loop variable
    state_map, count_map, age_map,  \* generate_map's locals (references)
    states,                 \* the dict of three lists (of references)
    run,                    \* the number of generate_map calls begun so far
    earlier,                \* the History an earlier call returned, as values
    q,                      \* the last analysis call: arguments and result
    mball                   \* render_cells: the cells to do, the elements made

config == <<X_DIM, Y_DIM, Z_DIM, ITERATIONS, LOOKAHEAD>>

locals == <<i, state_map, count_map, age_map>>

caller == <<run, earlier>>

vars == <<X_DIM, Y_DIM, Z_DIM, ITERATIONS, LOOKAHEAD, rng, heap, pc, i,
          state_map, count_map, age_map, states, run, earlier, q, mball>>

\* ------------------------------------------------------------------ arrays
\* The index set of an array of shape (X, Y, Z).
Cells(X, Y, Z) == (0 .. X - 1) \X (0 .. Y - 1) \X (0 .. Z - 1)

\* Every array of the script has the shape (X_DIM, Y_DIM, Z_DIM).
Grid == Cells(X_DIM, Y_DIM, Z_DIM)

\* An array is stored element by element: the value is computed once, when the
\* array is built, not at each later access (TLC evaluates f = f by
\* enumerating f, and keeps the enumeration).
ndarray(f) == IF f = f THEN f ELSE f

\* np.zeros_like(a, dtype=bool).
zeros_like_bool(a) == [c \in DOMAIN a |-> FALSE]

\* np.ones in place of np.zeros.
ones_int == [c \in Grid |-> 1]

\* np.zeros((X_DIM, Y_DIM, Z_DIM), dtype=int).
zeros_int == [c \in Grid |-> 0]

\* ~a on a boolean array.
invert(a) == [c \in DOMAIN a |-> ~a[c]]

\* a[mask] = v[mask]: boolean-mask assignment.
MaskAssign(a, mask, v) ==
    ndarray([c \in DOMAIN a |-> IF mask[c] THEN v[c] ELSE a[c]])

\* A boolean taken as an integer in an arithmetic context (0 + array).
B2I(b) == IF b THEN 1 ELSE 0

\* ------------------------------------------------------------------- heap
\* The array a reference points to.
deref(h, r) == h[r]

\* ------------------------------------------------------- count_neighbors
\* offsets without the filter on (0, 0, 0): the cell counts itself.
offsets_all ==
    [n \in 1 .. 27 |->
        <<((n - 1) \div 9) - 1, (((n - 1) \div 3) % 3) - 1, ((n - 1) % 3) - 1>>]

\* The 26 offsets in the order the comprehension of line 62 yields them.
offsets ==
    SelectSeq([n \in 1 .. 27 |->
                  <<((n - 1) \div 9) - 1, (((n - 1) \div 3) % 3) - 1, ((n - 1) % 3) - 1>>],
              LAMBDA o : o # <<0, 0, 0>>)

\* rolled without the wrap-around: a shift that drops what leaves the grid.
rolled_nowrap(live_map, o, c) ==
    LET n == <<c[1] - o[1], c[2] - o[2], c[3] - o[3]>>
    IN  IF n \in Grid THEN live_map[n] ELSE FALSE

\* The generator's element at line 63 for the offset o = (i, j, k):
\* np.roll(np.roll(np.roll(live_map, i, axis=0), j, axis=1), k, axis=2).
\* np.roll(a, s, axis) moves the element at index n to (n + s) mod dim, so the
\* rolled array holds at index n the element a[(n - s) mod dim], on each of
\* the three axes in turn.  rolled is that array's element at cell c.
rolled(live_map, o, c) ==
    live_map[<<(c[1] - o[1]) % X_DIM, (c[2] - o[2]) % Y_DIM, (c[3] - o[3]) % Z_DIM>>]

\* sum(...) at one cell: 0 + r1 + r2 + ... over the first n offsets.
RECURSIVE sum_at(_, _, _)
sum_at(live_map, c, n) ==
    IF n = 0 THEN 0
    ELSE sum_at(live_map, c, n - 1) + B2I(rolled(live_map, offsets[n], c))

count_neighbors(live_map) ==
    ndarray([c \in DOMAIN live_map |-> sum_at(live_map, c, Len(offsets))])

\* ------------------------------------------------------------ apply_rules
\* alive_condition with the lower limit off by one.
alive_condition_14(cnt) ==
    ndarray([c \in DOMAIN cnt |-> cnt[c] >= 14 /\ cnt[c] <= 26])

\* alive_condition with the upper limit exclusive (count_map < 26).
alive_condition_lt(cnt) ==
    ndarray([c \in DOMAIN cnt |-> cnt[c] >= 13 /\ cnt[c] < 26])

\* alive_condition with np.logical_or in place of np.logical_and.
alive_condition_or(cnt) ==
    ndarray([c \in DOMAIN cnt |-> cnt[c] >= 13 \/ cnt[c] <= 26])

\* np.logical_and(count_map >= 13, count_map <= 26)
alive_condition(cnt) ==
    ndarray([c \in DOMAIN cnt |-> cnt[c] >= 13 /\ cnt[c] <= 26])

\* dead_condition with the range 13..19 in place of the five listed counts.
dead_condition_range(cnt) ==
    ndarray([c \in DOMAIN cnt |-> cnt[c] >= 13 /\ cnt[c] <= 19])

\* np.isin(count_map, [13, 14, 17, 18, 19])
dead_condition(cnt) ==
    ndarray([c \in DOMAIN cnt |-> cnt[c] \in {13, 14, 17, 18, 19}])

\* rules_on returning the neighbour count of the new grid in place of the
\* count the rules were applied with.
rules_on_recount(old_map, cnt) ==
    LET new_map == MaskAssign(MaskAssign(zeros_like_bool(old_map), old_map,
                                         alive_condition(cnt)),
                              invert(old_map), dead_condition(cnt))
    IN  <<new_map, count_neighbors(new_map)>>

\* Lines 49-59 once count_map is computed: the pair (new_map, count_map).
rules_on(old_map, cnt) ==
    <<MaskAssign(MaskAssign(zeros_like_bool(old_map), old_map, alive_condition(cnt)),
                 invert(old_map), dead_condition(cnt)),
      cnt>>

\* The contents of the pair (new_map, count_map) apply_rules returns.
apply_rules(old_map) == rules_on(old_map, count_neighbors(old_map))

\* new_map bound to the argument's array in place of a new one
\* (new_map = old_map).
zeros_like_alias(h, old_map) == old_map

\* The reference line 49 binds new_map to: np.zeros_like allocates an array
\* of its own, the next of the heap h.
zeros_like_ref(h, old_map) == Len(h) + 1

\* The heap after apply_rules ran on the array old_map refers to, with the
\* references it returns: the array new_map was bound to now holds r[1] (the
\* writes of lines 53 and 57 go to that array), count_map is a new array
\* holding r[2], and no other array is written.
apply_rules_store(h, old_map, new_map, r) ==
    [heap |-> [h \o <<zeros_like_bool(h[old_map]), r[2]>> EXCEPT ![new_map] = r[1]],
     new_map |-> new_map,
     count_map |-> Len(h) + 2]

\* A call apply_rules(old_map) made with the heap h (old_map a reference).
apply_rules_call(h, old_map) ==
    apply_rules_store(h, old_map, zeros_like_ref(h, old_map), apply_rules(h[old_map]))

\* -------------------------------------------------- predict_future_states
\* predict_loop applying the rules to future_states[0] in place of
\* future_states[-1].
RECURSIVE predict_loop_first(_, _, _)
predict_loop_first(h, future_states, n) ==
    IF n <= 0 THEN [heap |-> h, future_states |-> future_states]
    ELSE LET a == apply_rules_call(h, future_states[1])
         IN  predict_loop_first(a.heap, Append(future_states, a.new_map), n - 1)

\* predict_loop running one iteration short (range(lookahead - 1)).
RECURSIVE predict_loop_short(_, _, _)
predict_loop_short(h, future_states, n) ==
    IF n <= 1 THEN [heap |-> h, future_states |-> future_states]
    ELSE LET a == apply_rules_call(h, future_states[Len(future_states)])
         IN  predict_loop_short(a.heap, Append(future_states, a.new_map), n - 1)

\* The loop of lines 68-70 with n iterations left, on the heap h:
\* future_states is the list of references built so far.  predict_append is
\* line 70 after the call a of line 69 returned.
RECURSIVE predict_loop(_, _, _)
RECURSIVE predict_append(_, _, _)
predict_append(a, future_states, n) ==
    predict_loop(a.heap, Append(future_states, a.new_map), n - 1)

predict_loop(h, future_states, n) ==
    IF n <= 0 THEN [heap |-> h, future_states |-> future_states]
    ELSE predict_append(apply_rules_call(h, future_states[Len(future_states)]),
                        future_states, n)

\* A call predict_future_states(cell_map, lookahead) made with the heap h:
\* line 67 allocates the copy, the loop allocates the rest.
predict_future_states(h, cell_map, lookahead) ==
    predict_loop(h \o <<h[cell_map]>>, <<Len(h) + 1>>, lookahead)

\* The arrays a list of references points to.
values(h, refs) == [j \in 1 .. Len(refs) |-> deref(h, refs[j])]

\* ---------------------------------------------------- get_death_iteration
\* Python values the function returns: an int, or the bool False.  A bool is
\* an int in Python: False == 0 is True and False indexes a list as 0.
PyInt(n) == [type |-> "int", val |-> n]

PyFalse == [type |-> "bool", val |-> 0]

\* Python's == on these values.
PyEq(a, b) == a.val = b.val

\* death_scan without the `not` of line 76.
RECURSIVE death_scan_alive(_, _, _)
death_scan_alive(future_states, c, n) ==
    IF n >= Len(future_states) THEN PyFalse
    ELSE IF future_states[n + 1][c] THEN PyInt(n)
    ELSE death_scan_alive(future_states, c, n + 1)

\* Lines 75-78: enumerate(future_states) from 0-based index n on, for the
\* cell c = (x, y, z).
RECURSIVE death_scan(_, _, _)
death_scan(future_states, c, n) ==
    IF n >= Len(future_states) THEN PyFalse
    ELSE IF ~future_states[n + 1][c] THEN PyInt(n)
    ELSE death_scan(future_states, c, n + 1)

\* ---------------------------------------------------------------- History
\* History as the values the three lists point to (0-based index k is k + 1).
History ==
    [states |-> [k \in 1 .. Len(states.states) |-> deref(heap, states.states[k])],
     counts |-> [k \in 1 .. Len(states.counts) |-> deref(heap, states.counts[k])],
     ages   |-> [k \in 1 .. Len(states.ages)   |-> deref(heap, states.ages[k])]]

\* --------------------------------------------------------------- init_map
\* Values np.random.rand can return, in thousandths: one below and one
\* above INIT_PROB.
Draws == {250, 750}

\* The C-order position of a cell in the X_DIM x Y_DIM x Z_DIM draw.
flat(c) == (c[1] * Y_DIM + c[2]) * Z_DIM + c[3] + 1

\* np.random.rand(X_DIM, Y_DIM, Z_DIM): the next X*Y*Z values of the seeded
\* stream.  The stream is a function of the seed alone; rng.tape holds the
\* part of it already observed, so a draw at an observed position repeats it
\* and a draw beyond it is any value.
rand_outcomes(g) ==
    LET n == X_DIM * Y_DIM * Z_DIM
    IN  {v \in [1 .. n -> Draws] :
            \A j \in 1 .. n : g.pos + j <= Len(g.tape) => v[j] = g.tape[g.pos + j]}

\* The generator after X*Y*Z values v were drawn.
rand_advance(g, v) ==
    LET n == Len(v)
        m == IF g.pos + n > Len(g.tape) THEN g.pos + n ELSE Len(g.tape)
    IN  [g EXCEPT !.pos = g.pos + n,
                  !.tape = [j \in 1 .. m |->
                               IF j <= Len(g.tape) THEN g.tape[j] ELSE v[j - g.pos]]]

\* np.random.rand(...) < init_prob on the drawn values v.
init_map(v, init_prob) == ndarray([c \in Grid |-> v[flat(c)] < init_prob])

\* np.random.seed(RND_SEED), line 41.
seeded == [seed |-> RND_SEED, pos |-> 0, tape |-> <<>>]

\* ----------------------------------------------------------- generate_map
\* age_update without the reset of line 151.
age_update_noreset(age, new_map) ==
    ndarray([c \in DOMAIN age |-> IF new_map[c] THEN age[c] + 1 ELSE age[c]])

\* age_map[state_map] += 1; age_map[~state_map] = 0 (lines 150-151), as the
\* new contents of the age array.
age_update(age, new_map) ==
    LET age1 == [c \in DOMAIN age |-> IF new_map[c] THEN age[c] + 1 ELSE age[c]]
    IN  ndarray([c \in DOMAIN age |-> IF ~new_map[c] THEN 0 ELSE age1[c]])

\* snapshot appending the age array itself, without `.copy()`.
snapshot_alias(h, sm, cm, am) ==
    [heap |-> h \o <<h[sm], h[cm], h[am]>>,
     state_map |-> Len(h) + 1, count_map |-> Len(h) + 2, age_map |-> am]

\* Lines 153-155: the three `.copy()` calls allocate three arrays with the
\* contents of the arrays sm, cm, am refer to; the references appended to
\* the three lists are those of the copies.
snapshot(h, sm, cm, am) ==
    [heap |-> h \o <<h[sm], h[cm], h[am]>>,
     state_map |-> Len(h) + 1, count_map |-> Len(h) + 2, age_map |-> Len(h) + 3]

\* range(ITERATIONS) in place of range(ITERATIONS + LOOKAHEAD).
loop_count_present == ITERATIONS

\* The number of iterations of the loop of line 148.
loop_count == ITERATIONS + LOOKAHEAD

NoQuery == [fn |-> "none"]

NoHistory == [states |-> <<>>, counts |-> <<>>, ages |-> <<>>]

\* Lines 139-146: the empty dict, the random grid and the zero ages.
GenerateMapInit ==
    /\ pc = "main"
    /\ X_DIM >= 0 /\ Y_DIM >= 0 /\ Z_DIM >= 0
    /\ \E v \in rand_outcomes(rng) :
          /\ rng' = rand_advance(rng, v)
          /\ heap' = heap \o <<init_map(v, INIT_PROB), zeros_int>>
          /\ state_map' = Len(heap) + 1
          /\ age_map' = Len(heap) + 2
    /\ count_map' = 0
    /\ states' = NoHistory
    /\ i' = 0
    /\ pc' = "loop"
    /\ run' = run + 1
    /\ UNCHANGED <<config, earlier, q, mball>>

\* Line 145 with a negative dimension: np.random.rand raises ValueError
\* ("negative dimensions are not allowed"), which nothing catches, so it ends
\* the script inside init_map.
InitMapRaises ==
    /\ pc = "main"
    /\ X_DIM < 0 \/ Y_DIM < 0 \/ Z_DIM < 0
    /\ pc' = "ValueError"
    /\ run' = run + 1
    /\ UNCHANGED <<config, rng, heap, locals, states, earlier, q, mball>>

\* Lines 148-155: one iteration of the loop.  apply_rules allocates new_map
\* and count_map, the age array is updated in place, and the three copies are
\* allocated and appended.
GenerateMapLoop ==
    /\ pc = "loop"
    /\ i < loop_count
    /\ \E a \in {apply_rules_call(heap, state_map)} :
       \E age \in {age_update(deref(a.heap, age_map), deref(a.heap, a.new_map))} :
       \E s \in {snapshot([a.heap EXCEPT ![age_map] = age],
                          a.new_map, a.count_map, age_map)} :
          /\ heap' = s.heap
          /\ state_map' = a.new_map
          /\ count_map' = a.count_map
          /\ states' = [states |-> Append(states.states, s.state_map),
                        counts |-> Append(states.counts, s.count_map),
                        ages   |-> Append(states.ages, s.age_map)]
    /\ i' = i + 1
    /\ UNCHANGED <<config, rng, pc, age_map, caller, q, mball>>

\* Line 156 (and 161): the loop is over and the dict is returned.
GenerateMapReturn ==
    /\ pc = "loop"
    /\ i >= loop_count
    /\ pc' = "returned"
    /\ UNCHANGED <<config, rng, heap, locals, states, caller, q, mball>>

\* The `lookahead` arguments the analysis functions are called with: up to
\* MaxQuery, and no more than the History has entries.
Lookaheads ==
    0 .. (IF MaxQuery < ITERATIONS + LOOKAHEAD THEN MaxQuery ELSE ITERATIONS + LOOKAHEAD)

\* apply_rules(states['states'][k]), lines 46-59 (count_neighbors is its
\* line 47).  q.base is the size of the heap before the call.
ApplyRules ==
    /\ pc = "returned"
    /\ \E k \in 0 .. Len(states.states) - 1 :
       \E a \in {apply_rules_call(heap, states.states[k + 1])} :
          /\ heap' = a.heap
          /\ q' = [fn |-> "apply_rules", k |-> k, base |-> Len(heap),
                   result |-> <<deref(a.heap, a.new_map), deref(a.heap, a.count_map)>>]
    /\ pc' = "analysed"
    /\ UNCHANGED <<config, rng, locals, states, caller, mball>>

\* predict_future_states(states['states'][k], lookahead), lines 66-71.
\* q.result is the returned list as the arrays it points to.
PredictFutureStates ==
    /\ pc = "returned"
    /\ \E k \in 0 .. Len(states.states) - 1, lookahead \in Lookaheads :
       \E p \in {predict_future_states(heap, states.states[k + 1], lookahead)} :
          /\ heap' = p.heap
          /\ q' = [fn |-> "predict_future_states", k |-> k, lookahead |-> lookahead,
                   base |-> Len(heap), result |-> values(p.heap, p.future_states)]
    /\ pc' = "analysed"
    /\ UNCHANGED <<config, rng, locals, states, caller, mball>>

\* get_death_iteration(states['states'][k], x, y, z, lookahead), lines 73-78:
\* the prediction of line 74, then the scan of lines 75-78.
GetDeathIteration ==
    /\ pc = "returned"
    /\ \E k \in 0 .. Len(states.states) - 1, lookahead \in Lookaheads :
       \E p \in {predict_future_states(heap, states.states[k + 1], lookahead)} :
       \E future_states \in {values(p.heap, p.future_states)} :
       \E c \in Grid :
          /\ heap' = p.heap
          /\ q' = [fn |-> "get_death_iteration", k |-> k, cell |-> c,
                   lookahead |-> lookahead, base |-> Len(heap),
                   future_states |-> future_states,
                   result |-> death_scan(future_states, c, 0)]
    /\ pc' = "analysed"
    /\ UNCHANGED <<config, rng, locals, states, caller, mball>>

\* The caller is done with the result of the analysis call: the arrays the
\* call allocated are dropped.
AnalysisDone ==
    /\ pc = "analysed"
    /\ pc' = "returned"
    /\ heap' = SubSeq(heap, 1, q.base)
    /\ q' = NoQuery
    /\ UNCHANGED <<config, rng, locals, states, caller, mball>>

\* ------------------------------------- render_cells, set_metaball_properties
\* The index the rendering reads the three lists at (lines 87-89 and 115).
PresentIndex == ITERATIONS

\* list[n] for a 0-based n >= 0 raises IndexError unless n < len(list).
InRange(list, n) == n >= 0 /\ n < Len(list)

\* The cell at C-order position n (1-based) of the grid.
unflat(n) == <<(n - 1) \div (Y_DIM * Z_DIM), ((n - 1) \div Z_DIM) % Y_DIM, (n - 1) % Z_DIM>>

\* np.transpose(np.nonzero(a)): the cells where a is True, in C order.
active_cells(a) ==
    SelectSeq([n \in 1 .. X_DIM * Y_DIM * Z_DIM |-> unflat(n)], LAMBDA c : a[c])

\* The n next values of the seeded stream (np.random.uniform takes one value
\* of the stream per call, as np.random.rand does per element).
stream_outcomes(g, n) ==
    {v \in [1 .. n -> Draws] :
        \A j \in 1 .. n : g.pos + j <= Len(g.tape) => v[j] = g.tape[g.pos + j]}

Max(S) == CHOOSE m \in S : \A n \in S : n <= m

\* max_age over the entries before the present index only
\* (states['ages'][:ITERATIONS]).
max_age_past(ages, c) == Max({ages[k][c] : k \in 1 .. ITERATIONS})

\* Line 93: max([age[x, y, z] for age in states['ages']]).
max_age(ages, c) == Max({ages[k][c] : k \in 1 .. Len(ages)})

\* neighbor_density > 0.9296, with neighbor_density = count / 26.
dense(count) == count * 10000 > 9296 * 26

\* neighbor_density < 0.57.
sparse(count) == count * 100 < 57 * 26

NoMball == [active |-> <<>>, elements |-> <<>>]

\* Lines 114-115: the metaball object is created and the cells alive at
\* index ITERATIONS are listed; the index raises IndexError when the list is
\* not that long.
RenderCells ==
    /\ pc = "returned"
    /\ IF InRange(states.states, PresentIndex)
       THEN /\ mball' = [active |-> active_cells(History.states[PresentIndex + 1]),
                         elements |-> <<>>]
            /\ pc' = "render"
       ELSE /\ mball' = NoMball
            /\ pc' = "IndexError"
    /\ UNCHANGED <<config, rng, heap, locals, states, caller, q>>

\* The element of lines 118-122 for the cell c, and what lines 103-104 set
\* from the values computed at lines 91-101.  stiffness and radius are
\* floats; the element records what they are computed from: cell_age and
\* max_age, the neighbour count, and the two values drawn.
ball(c, cell_age, max, count, v) ==
    [type |-> "BALL", co |-> c, cell_age |-> cell_age, max_age |-> max,
     count |-> count, size_draw |-> v[1], radius_draw |-> v[2],
     radius_range |-> IF sparse(count) THEN "1.33-2.25" ELSE "0.833-1.667",
     use_negative |-> FALSE]

\* One iteration of the loop of line 117 on the next active cell: lines
\* 118-124 and set_metaball_properties (lines 86-105).  Line 105 reads index
\* ITERATIONS + 1 unless cell_age == max_age already decides the `or`.
SetMetaballProperties ==
    /\ pc = "render"
    /\ mball.active # <<>>
    /\ \E c \in {Head(mball.active)} :
       \E is_alive \in {History.states[PresentIndex + 1][c]},
          cell_age \in {History.ages[PresentIndex + 1][c]},
          count \in {History.counts[PresentIndex + 1][c]},
          max \in {max_age(History.ages, c)} :
          IF ~is_alive
          THEN /\ mball' = [active |-> Tail(mball.active),
                            elements |-> Append(mball.elements,
                                                [type |-> "BALL", co |-> c])]
               /\ UNCHANGED <<rng, pc>>
          ELSE \E v \in stream_outcomes(rng, 2) :
               \E ele \in {ball(c, cell_age, max, count, v)} :
                  /\ rng' = rand_advance(rng, v)
                  /\ IF cell_age = max
                     THEN /\ mball' = [active |-> Tail(mball.active),
                                       elements |-> Append(mball.elements,
                                           [ele EXCEPT !.use_negative = TRUE])]
                          /\ pc' = pc
                     ELSE IF InRange(states.states, PresentIndex + 1)
                     THEN /\ mball' = [active |-> Tail(mball.active),
                                       elements |-> Append(mball.elements,
                                           [ele EXCEPT !.use_negative =
                                               \/ ~History.states[PresentIndex + 2][c]
                                               \/ dense(count)])]
                          /\ pc' = pc
                     ELSE /\ mball' = [mball EXCEPT !.elements = Append(@, ele)]
                          /\ pc' = "IndexError"
    /\ UNCHANGED <<config, heap, locals, states, caller, q>>

\* The loop of line 117 is over.
RenderDone ==
    /\ pc = "render"
    /\ mball.active = <<>>
    /\ pc' = "rendered"
    /\ UNCHANGED <<config, rng, heap, locals, states, caller, q, mball>>

\* ---------------------------------------------------------- specification
\* The script loaded (lines 28-41) and about to call generate_map.
InitWith(shapes, iterations, lookaheads) ==
    /\ \E s \in shapes : X_DIM = s[1] /\ Y_DIM = s[2] /\ Z_DIM = s[3]
    /\ ITERATIONS \in iterations
    /\ LOOKAHEAD \in lookaheads
    /\ rng = seeded
    /\ heap = <<>>
    /\ pc = "main"
    /\ i = 0
    /\ state_map = 0
    /\ count_map = 0
    /\ age_map = 0
    /\ states = NoHistory
    /\ run = 0
    /\ earlier = NoHistory
    /\ q = NoQuery
    /\ mball = NoMball

\* The small shapes run every ITERATIONS and LOOKAHEAD within the bounds; the
\* big shape, with all its 4096 initial grids, runs ITERATIONS = LOOKAHEAD = 1.
Init ==
    \/ InitWith(SmallShapes, 1 .. MaxIterations, 0 .. MaxLookahead)
    \/ InitWith(BigShapes, {1}, {1})

Next ==
    \/ GenerateMapInit
    \/ GenerateMapLoop
    \/ GenerateMapReturn
    \/ ApplyRules
    \/ PredictFutureStates
    \/ GetDeathIteration
    \/ AnalysisDone

Spec == Init /\ [][Next]_vars

\* ------------------------------------------------- generating twice
\* generate_map is called again in the same process (a second
\* `generate_map()` after line 161): the seeding of line 41 is not repeated
\* and the generator goes on where the first call left it.  The caller keeps
\* the first History to compare.
CallAgain ==
    /\ pc = "returned"
    /\ run < MaxRuns
    /\ earlier' = History
    /\ pc' = "main"
    /\ UNCHANGED <<config, rng, heap, locals, states, run, q, mball>>

\* The script is run again in a fresh process: lines 28-41 are executed
\* again, so the generator is seeded again.  The History of the run before
\* is kept (outside the process) to compare.
RunAgain ==
    /\ pc = "returned"
    /\ run < MaxRuns
    /\ earlier' = History
    /\ rng' = [rng EXCEPT !.pos = 0]
    /\ heap' = <<>>
    /\ pc' = "main"
    /\ i' = 0
    /\ state_map' = 0
    /\ count_map' = 0
    /\ age_map' = 0
    /\ states' = NoHistory
    /\ UNCHANGED <<config, run, q, mball>>

InitRuns == InitWith(SmallShapes, 1 .. MaxIterations, 0 .. MaxLookahead)

NextRuns == Next \/ CallAgain \/ RunAgain

SpecRuns == InitRuns /\ [][NextRuns]_vars

\* Only fresh processes: what the seed alone guarantees.
NextFresh == Next \/ RunAgain

SpecFresh == InitRuns /\ [][NextFresh]_vars

\* ------------------------------------------------- rendering
\* After generate_map the History is rendered (render_cells(states)), on the
\* small shapes with every ITERATIONS and LOOKAHEAD within the bounds.
NextRender ==
    \/ GenerateMapInit
    \/ GenerateMapLoop
    \/ GenerateMapReturn
    \/ RenderCells
    \/ SetMetaballProperties
    \/ RenderDone

SpecRender == InitRuns /\ [][NextRender]_vars

\* ------------------------------------------------- any configuration
\* Shapes with a dimension that is zero or negative.
DegenerateShapes == {<<0, 1, 1>>, <<2, 0, 1>>, <<-1, 1, 1>>, <<1, 2, -2>>}

\* The constants of lines 31-35 are not checked anywhere, so the script can
\* be loaded with any integers: also a shape with a dimension that is not
\* positive, and ITERATIONS = LOOKAHEAD = 0.
InitConfig ==
    \/ InitWith(SmallShapes \cup DegenerateShapes, 1 .. MaxIterations, 0 .. MaxLookahead)
    \/ InitWith(SmallShapes \cup DegenerateShapes, {0}, {0})

NextConfig == Next \/ InitMapRaises

SpecConfig == InitConfig /\ [][NextConfig]_vars

\* ================================================================= claims
\* One iteration of generate_map's loop: apply_rules ran on the array
\* state_map pointed to and state_map', count_map' point to what it returned.
RuleStep == pc = "loop" /\ i' = i + 1

old_grid == deref(heap, state_map)

new_grid == deref(heap', state_map')

new_count == deref(heap', count_map')

\* After an iteration of the loop: the array its apply_rules call was given.
\* No variable points to it any more; it was allocated two places before the
\* call's results in the first iteration (the age array lies between) and
\* five places before them in the later ones.
last_input == deref(heap, IF i = 1 THEN state_map - 2 ELSE state_map - 5)

last_output == deref(heap, state_map)

last_count == deref(heap, count_map)

Stepped == pc = "loop" /\ i >= 1

\* The number of the 26 non-zero offsets d for which the cell at c + d, taken
\* modulo the shape, is alive in g.
LiveAround(g, c) ==
    Cardinality({d \in ((-1 .. 1) \X (-1 .. 1) \X (-1 .. 1)) \ {<<0, 0, 0>>} :
                    g[<<(c[1] + d[1]) % X_DIM, (c[2] + d[2]) % Y_DIM,
                        (c[3] + d[3]) % Z_DIM>>]})

SurvivesIn(old, new, cnt) ==
    \A c \in Grid : old[c] => (new[c] <=> (cnt[c] >= 13 /\ cnt[c] <= 26))

\* C1: a cell alive in the input of apply_rules is alive in the returned grid
\* iff its count_neighbors value on the input is in [13, 26].
C1_Survival ==
    [][RuleStep => SurvivesIn(old_grid, new_grid, count_neighbors(old_grid))]_vars

\* apply_rules ran on a grid in which one alive cell had 13 neighbours and
\* survived and another had 12 and died.
C1_Witness ==
    /\ Stepped
    /\ \E c \in Grid : last_input[c] /\ last_count[c] = 13 /\ last_output[c]
    /\ \E c \in Grid : last_input[c] /\ last_count[c] = 12 /\ ~last_output[c]

BornIn(old, new, cnt) ==
    \A c \in Grid : ~old[c] => (new[c] <=> cnt[c] \in {13, 14, 17, 18, 19})

\* C2: a cell dead in the input of apply_rules is alive in the returned grid
\* iff its neighbour count is one of 13, 14, 17, 18, 19.
C2_Birth ==
    [][RuleStep => BornIn(old_grid, new_grid, count_neighbors(old_grid))]_vars

\* apply_rules ran on a grid in which one dead cell had 14 neighbours and
\* was born and another had 16 and stayed dead.
C2_Witness ==
    /\ Stepped
    /\ \E c \in Grid : ~last_input[c] /\ last_count[c] = 14 /\ last_output[c]
    /\ \E c \in Grid : ~last_input[c] /\ last_count[c] = 16 /\ ~last_output[c]

ToroidalSum(g, cnt) ==
    /\ DOMAIN cnt = Grid
    /\ \A c \in Grid : cnt[c] = LiveAround(g, c)

\* C3: count_neighbors returns a grid of the input's dimensions whose value
\* at a cell is the sum of the live states at the 26 offsets, modulo the shape.
C3_ToroidalCount == [][RuleStep => ToroidalSum(old_grid, new_count)]_vars

\* count_neighbors ran on a grid, more than two cells long in x, whose only
\* live cell is the far corner (X-1, Y-1, Z-1): the cell (0, 0, 0), which
\* reaches it across the boundary only, counts it.
C3_Witness ==
    /\ Stepped
    /\ X_DIM > 2
    /\ \A c \in Grid : last_input[c] <=> c = <<X_DIM - 1, Y_DIM - 1, Z_DIM - 1>>
    /\ last_count[<<0, 0, 0>>] > 0

\* C4: every value of every count grid, the one apply_rules just returned and
\* those stored in History, is in 0..26.
C4_CountBound ==
    /\ \A k \in 1 .. Len(states.counts) : \A c \in Grid : History.counts[k][c] \in 0 .. 26
    /\ count_map # 0 => \A c \in Grid : deref(heap, count_map)[c] \in 0 .. 26

\* A stored count grid holds 26 at one cell and less at another.
C4_Witness ==
    \E k \in 1 .. Len(states.counts) :
        /\ \E c \in Grid : History.counts[k][c] = 26
        /\ \E c \in Grid : History.counts[k][c] < 26

\* The age a cell had in the entry before entry k (all zeros before the first).
PrevAge(k, c) == IF k = 1 THEN 0 ELSE History.ages[k - 1][c]

\* C5: in every History entry, an alive cell's age is its age in the entry
\* before plus 1 (0 before the first entry) and a dead cell's age is 0.
C5_AgeStep ==
    \A k \in 1 .. Len(states.ages) : \A c \in Grid :
        History.ages[k][c] = IF History.states[k][c] THEN PrevAge(k, c) + 1 ELSE 0

\* One cell grew from age 1 to age 2 and another was reset from a positive age.
C5_Witness ==
    \E k \in 2 .. Len(states.ages) :
        /\ \E c \in Grid : History.ages[k - 1][c] = 1 /\ History.ages[k][c] = 2
        /\ \E c \in Grid : History.ages[k - 1][c] > 0 /\ History.ages[k][c] = 0

Predicted == pc = "analysed" /\ q.fn = "predict_future_states"

DeathAsked == pc = "analysed" /\ q.fn = "get_death_iteration"

\* C6: predict_future_states(History.states[k], N) is the sequence
\* History.states[k], ..., History.states[k+N] whenever k + N is an index of
\* the returned History.
C6_LookaheadIsHistory ==
    (Predicted /\ q.k + q.lookahead < Len(states.states))
        => q.result = SubSeq(History.states, q.k + 1, q.k + q.lookahead + 1)

\* A prediction of two steps inside History in which the grid changes at
\* both steps.
C6_Witness ==
    /\ Predicted
    /\ q.lookahead = 2
    /\ q.k + 2 < Len(states.states)
    /\ q.result[1] # q.result[2]
    /\ q.result[2] # q.result[3]

\* The 0-based indices of the predicted grids in which the asked cell is dead.
DeadAt == {n \in 0 .. Len(q.future_states) - 1 : ~q.future_states[n + 1][q.cell]}

\* C7: when the cell is dead in one of the lookahead + 1 predicted grids,
\* get_death_iteration returns the smallest index of such a grid, the input
\* grid being index 0.
C7_FirstDeath ==
    (DeathAsked /\ DeadAt # {})
        => /\ q.result = PyInt(CHOOSE n \in DeadAt : \A m \in DeadAt : n <= m)
           /\ Len(q.future_states) = q.lookahead + 1
           /\ q.future_states[1] = History.states[q.k + 1]

\* The cell is alive in the input and in the first predicted grid and dead in
\* the second: the answer is 2.
C7_Witness ==
    /\ DeathAsked
    /\ q.lookahead = 2
    /\ DeadAt = {2}
    /\ q.result = PyInt(2)

\* C8 (as claimed): when the cell stays alive in every predicted grid, the
\* result is a value that is no index of the predicted sequence and does not
\* equal the 0 returned for a cell dead in the input.
C8_SentinelDistinct ==
    (DeathAsked /\ DeadAt = {})
        => /\ ~PyEq(q.result, PyInt(0))
           /\ q.result.val \notin 0 .. Len(q.future_states) - 1

\* C9: for a cell alive in History.states[k] whose neighbour count there is
\* outside [13, 26], get_death_iteration(History.states[k], x, y, z, 1) is 1.
C9_DiesNextStep ==
    (/\ DeathAsked
     /\ q.lookahead = 1
     /\ History.states[q.k + 1][q.cell]
     /\ LiveAround(History.states[q.k + 1], q.cell) \notin 13 .. 26)
        => q.result = PyInt(1)

\* Such a call was made, on a cell with 12 live neighbours or fewer.
C9_Witness ==
    /\ DeathAsked
    /\ q.lookahead = 1
    /\ History.states[q.k + 1][q.cell]
    /\ LiveAround(History.states[q.k + 1], q.cell) \in 1 .. 12
    /\ q.result = PyInt(1)

Compared == pc = "returned" /\ earlier # NoHistory

\* C10 (as claimed): generating the history twice, also by two successive
\* calls in one process, gives the same states, counts and ages at every
\* index.
C10_Deterministic == Compared => History = earlier

\* Two runs, each in a fresh process, give the same History.
C10_FreshRunsAgree == Compared => History = earlier

\* Two fresh runs were compared and their Histories hold a live cell.
C10_FreshWitness ==
    /\ Compared
    /\ \E k \in 1 .. Len(states.states) : \E c \in Grid : History.states[k][c]

\* generate_map has run its loop and handed the dict back.
Returned == pc \in {"returned", "analysed"}

\* The three lists have one length, the number of iterations done; the loop
\* variable never passes ITERATIONS + LOOKAHEAD, where the function can
\* return, and it returns with exactly ITERATIONS + LOOKAHEAD entries; every stored array has the shape
\* (X_DIM, Y_DIM, Z_DIM).
C11_Lengths ==
    /\ Len(states.states) = Len(states.counts)
    /\ Len(states.counts) = Len(states.ages)
    /\ pc \in {"loop", "returned", "analysed"} => Len(states.states) = i
    /\ pc = "loop" => /\ i <= ITERATIONS + LOOKAHEAD
                      /\ i = ITERATIONS + LOOKAHEAD => ENABLED GenerateMapReturn
    /\ Returned => Len(states.states) = ITERATIONS + LOOKAHEAD
    /\ \A k \in 1 .. Len(states.states) :
          /\ DOMAIN History.states[k] = Cells(X_DIM, Y_DIM, Z_DIM)
          /\ DOMAIN History.counts[k] = Cells(X_DIM, Y_DIM, Z_DIM)
          /\ DOMAIN History.ages[k] = Cells(X_DIM, Y_DIM, Z_DIM)

\* A step of one call either leaves the three lists alone or appends one
\* reference to each, keeping the references already there in their places.
C11_AppendOnly ==
    pc # "main" =>
        \/ states' = states
        \/ /\ i' = i + 1
           /\ Len(states'.states) = Len(states.states) + 1
           /\ SubSeq(states'.states, 1, Len(states.states)) = states.states
           /\ SubSeq(states'.counts, 1, Len(states.counts)) = states.counts
           /\ SubSeq(states'.ages, 1, Len(states.ages)) = states.ages

\* C11: generate_map ends after exactly ITERATIONS + LOOKAHEAD iterations
\* with three lists of that length; after every iteration the three lists
\* have equal length, one triple being appended per iteration and none
\* removed or reordered; every grid has the dimensions (X_DIM, Y_DIM, Z_DIM).
C11_HistoryLength == []C11_Lengths /\ [][C11_AppendOnly]_vars

\* A call with LOOKAHEAD > 0 returned a History of four entries.
C11_Witness ==
    /\ pc = "returned"
    /\ LOOKAHEAD > 0
    /\ Len(states.states) = 4
    /\ Len(states.states) = ITERATIONS + LOOKAHEAD

\* C12: once an entry is in the three lists, the three arrays it refers to
\* keep their contents through every later step, the in-place update of the
\* running age array included.
C12_EntriesFrozen ==
    [][\A k \in 1 .. Len(states.states) :
          k <= Len(states'.states) =>
              /\ deref(heap', states'.states[k]) = deref(heap, states.states[k])
              /\ deref(heap', states'.counts[k]) = deref(heap, states.counts[k])
              /\ deref(heap', states'.ages[k]) = deref(heap, states.ages[k])]_vars

\* A second iteration has run after the first entry was appended: it changed
\* the running state and the running age array, which now differ from what
\* the first entry holds.
C12_Witness ==
    /\ pc = "loop"
    /\ i >= 2
    /\ deref(heap, age_map) # History.ages[1]
    /\ deref(heap, state_map) # History.states[1]
    /\ \E c \in Grid : History.ages[1][c] > 0

\* A dimension that is not positive, or no step to run.
BadConfig ==
    X_DIM <= 0 \/ Y_DIM <= 0 \/ Z_DIM <= 0 \/ ITERATIONS + LOOKAHEAD = 0

\* C13 (as claimed): a run whose configuration has a non-positive dimension
\* or a step count of zero ends in a configuration error before any
\* simulation step: it runs no iteration and returns no History.
C13_ConfigRejected == BadConfig => (i = 0 /\ ~Returned)

\* C14 (as claimed): the index at which the rendering reads the History is
\* at least 0 and less than ITERATIONS, and the index after it is an index of
\* the History, whatever ITERATIONS >= 1 and LOOKAHEAD >= 0 are: no read of
\* the rendering fails.
C14_PresentIndexValid ==
    Len(states.states) = ITERATIONS + LOOKAHEAD /\ pc # "loop" =>
        /\ 0 <= PresentIndex
        /\ PresentIndex < ITERATIONS
        /\ InRange(states.states, PresentIndex + 1)
        /\ pc # "IndexError"

\* C15: predict_future_states(History.states[k], N) returns N + 1 grids: the
\* first equals the input, and each later one is the grid apply_rules returns
\* for the one before it (for N = 0 the input alone).
C15_Prediction ==
    Predicted =>
        /\ Len(q.result) = q.lookahead + 1
        /\ q.result[1] = History.states[q.k + 1]
        /\ \A j \in 1 .. q.lookahead : q.result[j + 1] = apply_rules(q.result[j])[1]

\* A prediction of two steps returned three grids, the second and the third
\* both different from the input.
C15_Witness ==
    /\ Predicted
    /\ q.lookahead = 2
    /\ Len(q.result) = 3
    /\ q.result[2] # q.result[1]
    /\ q.result[3] # q.result[1]

\* An analysis function (apply_rules with its count_neighbors call,
\* predict_future_states or get_death_iteration) is called on a History entry
\* and returns.
AnalysisCall == pc = "returned" /\ pc' = "analysed"

\* C16: a call of apply_rules, count_neighbors, predict_future_states or
\* get_death_iteration on History.states[k] leaves the array it is given and
\* every entry of the History as they were.
C16_AnalysisFrame ==
    [][AnalysisCall =>
          /\ deref(heap', states.states[q'.k + 1]) = deref(heap, states.states[q'.k + 1])
          /\ states' = states
          /\ History' = History]_vars

\* apply_rules was called on an entry and returned a grid and a count array
\* that differ from the entry's own.
C16_Witness ==
    /\ pc = "analysed"
    /\ q.fn = "apply_rules"
    /\ q.result[1] # History.states[q.k + 1]
    /\ q.result[2] # History.counts[q.k + 1]

\* The grid History entry k (1-based) was computed from, during and after the
\* first generate_map call of a process: the initial random grid, the first
\* array the call allocates (no variable and no entry refers to it once the
\* first iteration has run), for the first entry, and the entry before
\* otherwise.
Predecessor(k) == IF k = 1 THEN deref(heap, 1) ELSE History.states[k - 1]

CountGrid(g) == [c \in Grid |-> LiveAround(g, c)]

RuleGrid(g, cnt) ==
    [c \in Grid |-> IF g[c] THEN cnt[c] \in 13 .. 26
                    ELSE cnt[c] \in {13, 14, 17, 18, 19}]

\* C17: History.counts[k] is the neighbour count of the grid entry k was
\* computed from (the initial grid for the first entry, the entry before for
\* the others) and History.states[k] is the rule applied to that grid with
\* that count; the initial grid has no entry of its own.
C17_CountOfPredecessor ==
    pc \in {"loop", "returned"} =>
        /\ Len(states.states) = i
        /\ \A k \in 1 .. Len(states.states) :
              /\ History.counts[k] = CountGrid(Predecessor(k))
              /\ History.states[k] = RuleGrid(Predecessor(k), History.counts[k])

\* A returned History has an entry whose stored count is not the neighbour
\* count of the entry's own state, and whose state is not the initial grid.
C17_Witness ==
    /\ pc = "returned"
    /\ \E k \in 1 .. Len(states.states) :
          /\ History.counts[k] # CountGrid(History.states[k])
          /\ History.states[k] # deref(heap, 1)

\* The number of consecutive History entries ending at entry k (1-based) in
\* which the cell c is alive.
RECURSIVE Streak(_, _)
Streak(k, c) == IF k = 0 \/ ~History.states[k][c] THEN 0 ELSE 1 + Streak(k - 1, c)

\* C18: the age of a cell in entry k is the number of consecutive entries
\* ending at k in which it is alive; it is positive iff the cell is alive in
\* entry k, and it lies between 0 and the number of entries up to k.
C18_AgeIsStreak ==
    pc \in {"loop", "returned"} =>
        \A k \in 1 .. Len(states.ages) : \A c \in Grid :
            /\ History.ages[k][c] = Streak(k, c)
            /\ History.ages[k][c] > 0 <=> History.states[k][c]
            /\ History.ages[k][c] >= 0
            /\ History.ages[k][c] <= k

\* A returned History has an entry k >= 2 in which one cell has been alive
\* in every entry so far (age k) and another, alive in the entry before, is
\* dead (age 0).
C18_Witness ==
    /\ pc = "returned"
    /\ \E k \in 2 .. Len(states.ages) :
          /\ \E c \in Grid : History.ages[k][c] = k
          /\ \E c \in Grid : History.states[k - 1][c] /\ History.ages[k][c] = 0

AllDead(g) == \A c \in Grid : ~g[c]

AllAlive(g) == \A c \in Grid : g[c]

\* apply_rules was called on a History entry and has returned.
Applied == pc = "analysed" /\ q.fn = "apply_rules"

\* C19: the all-dead grid and the all-alive grid are fixed points of
\* apply_rules on every shape; a run whose initial grid is all dead has every
\* History state all dead with every age 0, and a run whose initial grid is
\* all alive has every History state all alive with every age in entry i
\* equal to i + 1.
C19_FixedPoints ==
    /\ (pc \in {"loop", "returned"} /\ AllDead(deref(heap, 1))) =>
          \A k \in 1 .. Len(states.states) :
              /\ AllDead(History.states[k])
              /\ \A c \in Grid : History.ages[k][c] = 0
    /\ (pc \in {"loop", "returned"} /\ AllAlive(deref(heap, 1))) =>
          \A k \in 1 .. Len(states.states) :
              /\ AllAlive(History.states[k])
              /\ \A c \in Grid : History.ages[k][c] = k
    /\ (Applied /\ AllDead(History.states[q.k + 1])) => AllDead(q.result[1])
    /\ (Applied /\ AllAlive(History.states[q.k + 1])) => AllAlive(q.result[1])

\* A run on the 3 x 2 x 2 torus began with every cell alive and returned its
\* History.
C19_Witness ==
    /\ pc = "returned"
    /\ X_DIM = 3
    /\ AllAlive(deref(heap, 1))
    /\ Len(states.states) = 2
    /\ \A c \in Grid : History.ages[2][c] = 2

\* The rendering has begun: elements holds what set_metaball_properties set
\* for the cells done so far.
Rendering == pc \in {"render", "rendered", "IndexError"}

\* C20: for every cell alive at the index the rendering reads, the largest
\* age of the cell over all History entries is at least its age at that
\* index, which is at least 1, so that cell_age / max_age is defined and lies
\* in (0, 1]; the same holds at every index of a returned History.
C20_AgeRatio ==
    /\ Rendering =>
          \A n \in 1 .. Len(mball.elements) :
              /\ History.states[PresentIndex + 1][mball.elements[n].co]
              /\ mball.elements[n].cell_age
                     = History.ages[PresentIndex + 1][mball.elements[n].co]
              /\ mball.elements[n].cell_age >= 1
              /\ mball.elements[n].max_age >= mball.elements[n].cell_age
    /\ pc = "returned" =>
          \A k \in 1 .. Len(states.states) : \A c \in Grid :
              History.states[k][c] =>
                  /\ History.ages[k][c] >= 1
                  /\ max_age(History.ages, c) >= History.ages[k][c]

\* Every cell alive at the index read has been rendered, and for one of
\* them the age there is more than 1 and less than its largest age, which it
\* reaches in a later entry.
C20_Witness ==
    /\ pc = "rendered"
    /\ \E n \in 1 .. Len(mball.elements) :
          /\ mball.elements[n].cell_age > 1
          /\ mball.elements[n].cell_age < mball.elements[n].max_age

====
